---- MODULE Spec2Model ----
(***************************************************************************)
(* ImportNinjaLog of ui/tracer/ninja.go: read a .ninja_log, keep the       *)
(* entries after the last restart, sort them by Begin, assign each to a    *)
(* lane (first fit) and write one complete event per entry to the trace.   *)
(*                                                                         *)
(* Texts are sequences of one-character strings, so that strings.Split and *)
(* strconv.Atoi are computed on the characters.  A uint64 is the pair      *)
(* <<k, n>> that stands for k * 2^64 + n, with k = 1 exactly when n < 0:   *)
(* this is arithmetic modulo 2^64 on the values within reach of 0 and of   *)
(* 2^64, which are the ones small offsets produce.                         *)
(***************************************************************************)
EXTENDS Integers, Sequences, FiniteSets, TLC

VARIABLES
    pc,          \* position in ImportNinjaLog
    file,        \* the log file: the lines bufio.Scanner yields, in order
    modTime,     \* stat.ModTime() of the log file, in ns
    startOffset, \* argument startOffset, in ns since the epoch (UnixNano)
    deferred,    \* stack of deferred calls
    handle,      \* f: "none", "open" or "closed"
    pos,         \* number of lines the scanner has yielded
    header,      \* local header
    entries,     \* local entries
    prevEnd,     \* local prevEnd
    cpus,        \* local cpus
    idx,         \* index of the range loop over entries
    tids,        \* tid computed for each entry processed so far
    trace,       \* events written to the trace, in order
    log,         \* messages given to t.log, in order
    panicking,   \* a run-time panic is propagating to the caller
    ret          \* the statement that left the function body, "" before that

vars == <<pc, file, modTime, startOffset, deferred, handle, pos, header,
          entries, prevEnd, cpus, idx, tids, trace, log, panicking, ret>>

-----------------------------------------------------------------------------
(* Bounds of the model *)

MaxLines == 2
SchedLines == 3

-----------------------------------------------------------------------------
(* Texts *)

Tab == "\t"

Digit == <<"0", "1", "2", "3", "4", "5", "6", "7", "8", "9">>

IsDigit(c) == \E d \in 1..10 : Digit[d] = c

DigitVal(c) == (CHOOSE d \in 1..10 : Digit[d] = c) - 1

RECURSIVE DigitsVal(_)
DigitsVal(s) ==
    IF s = <<>> THEN 0
    ELSE 10 * DigitsVal(SubSeq(s, 1, Len(s) - 1)) + DigitVal(s[Len(s)])

(* strconv.Atoi: an optional sign, then one or more decimal digits. *)
Atoi(s) ==
    LET signed == s # <<>> /\ s[1] \in {"+", "-"}
        body   == IF signed THEN Tail(s) ELSE s
    IN  IF body = <<>> \/ \E i \in 1..Len(body) : ~IsDigit(body[i])
        THEN [ok |-> FALSE, val |-> 0]
        ELSE [ok |-> TRUE,
              val |-> IF signed /\ s[1] = "-" THEN 0 - DigitsVal(body)
                      ELSE DigitsVal(body)]

(* strings.Split(s, sep) for a one-character sep: always at least one field. *)
RECURSIVE Split(_, _)
Split(s, sep) ==
    IF \A i \in 1..Len(s) : s[i] # sep THEN <<s>>
    ELSE LET k == CHOOSE i \in 1..Len(s) :
                      s[i] = sep /\ \A j \in 1..(i - 1) : s[j] # sep
         IN  <<SubSeq(s, 1, k - 1)>> \o Split(SubSeq(s, k + 1, Len(s)), sep)

(* The decimal text of an integer and a line made of fields: how the input *)
(* files of the model are written down.                                    *)
RECURSIVE NatText(_)
NatText(n) ==
    IF n < 10 THEN <<Digit[n + 1]>>
    ELSE NatText(n \div 10) \o <<Digit[(n % 10) + 1]>>

IntText(v) == IF v < 0 THEN <<"-">> \o NatText(0 - v) ELSE NatText(v)

RECURSIVE JoinTab(_)
JoinTab(fs) ==
    IF Len(fs) = 1 THEN fs[1]
    ELSE fs[1] \o <<Tab>> \o JoinTab(Tail(fs))

ExpectedHeader ==
    <<"#", " ", "n", "i", "n", "j", "a", " ", "l", "o", "g", " ", "v", "5">>

-----------------------------------------------------------------------------
(* uint64 *)

U64Norm(n) == IF n >= 0 THEN <<0, n>> ELSE <<1, n>>

Uint64(x) == U64Norm(x)

U64Mul(u, c) == U64Norm(u[2] * c)

U64Add(u, v) == U64Norm(u[2] + v[2])

(* Division of a value below 2^63 (the only one the model divides). *)
U64Div(u, c) == <<0, u[2] \div c>>

-----------------------------------------------------------------------------
(* The log files and the arguments of the model *)

GenTimes == (-1)..1

SchedTimes == 0..3

Names == {<<"a">>}

Letter == <<"a", "b", "c", "d", "e", "f">>

EntryLine(b, e, n) == JoinTab(<<IntText(b), IntText(e), <<"0">>, n>>)

(* Lines with all four fields, and lines that are short, long or not numbers. *)
GoodLines == {EntryLine(b, e, n) : b \in GenTimes, e \in GenTimes, n \in Names}

OddLines ==
    { <<>>,
      <<"x">>,
      <<"1">>,
      JoinTab(<<<<"1">>, <<"x">>>>),
      JoinTab(<<<<"0">>, <<"1">>>>),
      JoinTab(<<<<"0">>, <<"1">>, <<"0">>>>),
      JoinTab(<<<<"x">>, <<"1">>, <<"0">>, <<"a">>>>),
      JoinTab(<<<<"0">>, <<"1">>, <<"0">>, <<"b">>, <<"f">>>>) }

GenLines == GoodLines \cup OddLines

GenData == UNION {[1..n -> GenLines] : n \in 0..MaxLines}

(* Logs of SchedLines entries with end > begin >= 0, named by position. *)
SchedPairs == {p \in SchedTimes \X SchedTimes : p[1] < p[2]}

SchedData ==
    {[i \in 1..SchedLines |-> EntryLine(ps[i][1], ps[i][2], <<Letter[i]>>)] :
        ps \in [1..SchedLines -> SchedPairs]}

OtherHeaders ==
    { <<"#", " ", "n", "i", "n", "j", "a", " ", "l", "o", "g", " ", "v", "6">>,
      ExpectedHeader \o <<" ">> }

(* The log (0,10,a), (5,15,b), (20,25,c). *)
ScenarioData ==
    << EntryLine(0, 10, <<"a">>), EntryLine(5, 15, <<"b">>),
       EntryLine(20, 25, <<"c">>) >>

Files ==
    {<<>>}
    \cup {<<ExpectedHeader>> \o d : d \in GenData \cup SchedData \cup {ScenarioData}}
    \cup {<<h>> \o d : h \in OtherHeaders, d \in {g \in GenData : Len(g) <= 1}}

FileModTime == 2000

StartOffsets == {FileModTime - 1, FileModTime, FileModTime + 1}

-----------------------------------------------------------------------------
(* Collaborators: the trace sink and the logger *)

SpanName == <<"ninja log import">>

BeginEvent == [Name |-> SpanName, Phase |-> "B"]

EndEvent == [Name |-> SpanName, Phase |-> "E"]

writeEvent(tr, ev) == Append(tr, ev)

Println(lg, msg) == Append(lg, [level |-> "normal", msg |-> msg, arg |-> <<>>])

Verboseln(lg, msg) == Append(lg, [level |-> "verbose", msg |-> msg, arg |-> <<>>])

Printf(lg, msg, arg) == Append(lg, [level |-> "normal", msg |-> msg, arg |-> arg])

-----------------------------------------------------------------------------
(* ImportNinjaLog *)

Init ==
    /\ pc = "idle"
    /\ file \in Files
    /\ modTime = FileModTime
    /\ startOffset = 0
    /\ deferred = <<>>
    /\ handle = "none"
    /\ pos = 0
    /\ header = TRUE
    /\ entries = <<>>
    /\ prevEnd = 0
    /\ cpus = <<>>
    /\ idx = 1
    /\ tids = <<>>
    /\ trace = <<>>
    /\ log = <<>>
    /\ panicking = FALSE
    /\ ret = ""

(* The begin marker written and t.End never deferred. *)
CallWithoutDefer ==
    /\ pc = "idle"
    /\ \E so \in StartOffsets : startOffset' = so
    /\ trace' = writeEvent(trace, BeginEvent)
    /\ pc' = "stat"
    /\ UNCHANGED <<ret, file, modTime, deferred, handle, pos, header, entries,
                   prevEnd, cpus, idx, tids, log, panicking>>

(* t.Begin("ninja log import", thread); defer t.End(thread) *)
Call ==
    /\ pc = "idle"
    /\ \E so \in StartOffsets : startOffset' = so
    /\ trace' = writeEvent(trace, BeginEvent)
    /\ deferred' = Append(deferred, "End")
    /\ pc' = "stat"
    /\ UNCHANGED <<ret, file, modTime, handle, pos, header, entries, prevEnd, cpus,
                   idx, tids, log, panicking>>

(* os.Stat fails *)
StatMissing ==
    /\ pc = "stat"
    /\ log' = Println(log, "Missing ninja log:")
    /\ pc' = "unwind"
    /\ ret' = "missing"
    /\ UNCHANGED <<file, modTime, startOffset, deferred, handle, pos, header,
                   entries, prevEnd, cpus, idx, tids, trace, panicking>>

(* Before that also holds of equal times. *)
BeforeOrAt(t, u) == t <= u

Before(t, u) == t < u

StatStale ==
    /\ pc = "stat"
    /\ Before(modTime, startOffset)
    /\ log' = Verboseln(log, "Ninja log not modified, not importing any entries.")
    /\ pc' = "unwind"
    /\ ret' = "stale"
    /\ UNCHANGED <<file, modTime, startOffset, deferred, handle, pos, header,
                   entries, prevEnd, cpus, idx, tids, trace, panicking>>

StatFresh ==
    /\ pc = "stat"
    /\ ~Before(modTime, startOffset)
    /\ pc' = "open"
    /\ UNCHANGED <<ret, file, modTime, startOffset, deferred, handle, pos, header,
                   entries, prevEnd, cpus, idx, tids, trace, log, panicking>>

OpenFail ==
    /\ pc = "open"
    /\ log' = Println(log, "Error opening ninja log:")
    /\ pc' = "unwind"
    /\ ret' = "open"
    /\ UNCHANGED <<file, modTime, startOffset, deferred, handle, pos, header,
                   entries, prevEnd, cpus, idx, tids, trace, panicking>>

(* OpenOk that never defers f.Close(). *)
OpenOkWithoutDefer ==
    /\ pc = "open"
    /\ handle' = "open"
    /\ pos' = 0
    /\ header' = TRUE
    /\ entries' = <<>>
    /\ prevEnd' = 0
    /\ pc' = "scan"
    /\ UNCHANGED <<ret, file, modTime, startOffset, deferred, cpus, idx, tids,
                   trace, log, panicking>>

(* os.Open succeeds; defer f.Close(); the locals of the scan loop *)
OpenOk ==
    /\ pc = "open"
    /\ handle' = "open"
    /\ deferred' = Append(deferred, "Close")
    /\ pos' = 0
    /\ header' = TRUE
    /\ entries' = <<>>
    /\ prevEnd' = 0
    /\ pc' = "scan"
    /\ UNCHANGED <<ret, file, modTime, startOffset, cpus, idx, tids, trace, log,
                   panicking>>

(* s.Scan() yields the next line *)
Scanning == pc = "scan" /\ pos < Len(file)

Text == file[pos + 1]

Fields == Split(Text, Tab)

ScanHeaderBad ==
    /\ Scanning
    /\ header
    /\ Text # ExpectedHeader
    /\ log' = Printf(log, "Unknown ninja log header: %q", Text)
    /\ pos' = pos + 1
    /\ pc' = "unwind"
    /\ ret' = "header"
    /\ UNCHANGED <<file, modTime, startOffset, deferred, handle, header,
                   entries, prevEnd, cpus, idx, tids, trace, panicking>>

(* The first line taken as the header whatever it says. *)
ScanHeaderAny ==
    /\ Scanning
    /\ header
    /\ header' = FALSE
    /\ pos' = pos + 1
    /\ UNCHANGED <<ret, pc, file, modTime, startOffset, deferred, handle, entries,
                   prevEnd, cpus, idx, tids, trace, log, panicking>>

ScanHeaderOk ==
    /\ Scanning
    /\ header
    /\ Text = ExpectedHeader
    /\ header' = FALSE
    /\ pos' = pos + 1
    /\ UNCHANGED <<ret, pc, file, modTime, startOffset, deferred, handle, entries,
                   prevEnd, cpus, idx, tids, trace, log, panicking>>

ScanBadBegin ==
    /\ Scanning
    /\ ~header
    /\ ~Atoi(Fields[1]).ok
    /\ log' = Printf(log, "Unable to parse ninja entry %q: %v", Text)
    /\ pos' = pos + 1
    /\ pc' = "unwind"
    /\ ret' = "entry"
    /\ UNCHANGED <<file, modTime, startOffset, deferred, handle, header,
                   entries, prevEnd, cpus, idx, tids, trace, panicking>>

(* fields[1] or fields[3] is out of range: a run-time panic *)
ScanPanic ==
    /\ Scanning
    /\ ~header
    /\ Atoi(Fields[1]).ok
    /\ IF Len(Fields) < 2 THEN TRUE
       ELSE Len(Fields) < 4 /\ Atoi(Fields[2]).ok
    /\ panicking' = TRUE
    /\ pos' = pos + 1
    /\ pc' = "unwind"
    /\ ret' = "panic"
    /\ UNCHANGED <<file, modTime, startOffset, deferred, handle, header,
                   entries, prevEnd, cpus, idx, tids, trace, log>>

ScanBadEnd ==
    /\ Scanning
    /\ ~header
    /\ Atoi(Fields[1]).ok
    /\ Len(Fields) >= 2
    /\ ~Atoi(Fields[2]).ok
    /\ log' = Printf(log, "Unable to parse ninja entry %q: %v", Text)
    /\ pos' = pos + 1
    /\ pc' = "unwind"
    /\ ret' = "entry"
    /\ UNCHANGED <<file, modTime, startOffset, deferred, handle, header,
                   entries, prevEnd, cpus, idx, tids, trace, panicking>>

(* Restart that also fires on an end equal to the previous one. *)
RestartOnEqual(end, prev) == end <= prev

Restart(end, prev) == end < prev

EntryName(fields) == fields[4]

(* ScanEntry that keeps in prevEnd the largest end of all the lines read. *)
ScanEntryMaxSeen ==
    /\ Scanning
    /\ ~header
    /\ Len(Fields) >= 4
    /\ Atoi(Fields[1]).ok
    /\ Atoi(Fields[2]).ok
    /\ LET begin == Atoi(Fields[1]).val
           end   == Atoi(Fields[2]).val
           kept  == IF Restart(end, prevEnd) THEN <<>> ELSE entries
       IN  /\ prevEnd' = IF end > prevEnd THEN end ELSE prevEnd
           /\ entries' = Append(kept, [Name  |-> EntryName(Fields),
                                       Begin |-> begin,
                                       End   |-> end])
    /\ pos' = pos + 1
    /\ UNCHANGED <<ret, pc, file, modTime, startOffset, deferred, handle, header,
                   cpus, idx, tids, trace, log, panicking>>

ScanEntry ==
    /\ Scanning
    /\ ~header
    /\ Len(Fields) >= 4
    /\ Atoi(Fields[1]).ok
    /\ Atoi(Fields[2]).ok
    /\ LET begin == Atoi(Fields[1]).val
           end   == Atoi(Fields[2]).val
           kept  == IF Restart(end, prevEnd) THEN <<>> ELSE entries
       IN  /\ prevEnd' = end
           /\ entries' = Append(kept, [Name  |-> EntryName(Fields),
                                       Begin |-> begin,
                                       End   |-> end])
    /\ pos' = pos + 1
    /\ UNCHANGED <<ret, pc, file, modTime, startOffset, deferred, handle, header,
                   cpus, idx, tids, trace, log, panicking>>

(* s.Scan() returns false and s.Err() is set *)
ScanReadErr ==
    /\ pc = "scan"
    /\ log' = Println(log, "Unable to parse ninja log:")
    /\ pc' = "unwind"
    /\ ret' = "read"
    /\ UNCHANGED <<file, modTime, startOffset, deferred, handle, pos, header,
                   entries, prevEnd, cpus, idx, tids, trace, panicking>>

(* The end of the file with the header still awaited taken as a bad header. *)
ScanEndWantsHeader ==
    /\ pc = "scan"
    /\ pos = Len(file)
    /\ IF header
       THEN /\ log' = Printf(log, "Unknown ninja log header: %q", <<>>)
            /\ pc' = "unwind"
            /\ ret' = "header"
       ELSE /\ pc' = "sort"
            /\ UNCHANGED <<log, ret>>
    /\ UNCHANGED <<file, modTime, startOffset, deferred, handle, pos, header,
                   entries, prevEnd, cpus, idx, tids, trace, panicking>>

(* s.Scan() returns false at the end of the file, s.Err() is nil *)
ScanEnd ==
    /\ pc = "scan"
    /\ pos = Len(file)
    /\ pc' = "sort"
    /\ UNCHANGED <<ret, file, modTime, startOffset, deferred, handle, pos, header,
                   entries, prevEnd, cpus, idx, tids, trace, log, panicking>>

(* Less that orders the entries by End. *)
LessByEnd(n, i, j) == n[i].End < n[j].End

Less(n, i, j) == n[i].Begin < n[j].Begin

Perms(n) == {p \in [1..n -> 1..n] : \A i, j \in 1..n : i # j => p[i] # p[j]}

(* What sort.Sort may leave: a rearrangement in which no later element is *)
(* Less than an earlier one; the order of equal Begins is the sort's own.  *)
Sorted(n) == \A i, j \in 1..Len(n) : i < j => ~Less(n, j, i)

SortResults(n) ==
    {s \in {[i \in 1..Len(n) |-> n[p[i]]] : p \in Perms(Len(n))} : Sorted(s)}

(* Sort that leaves the entries in file order. *)
SortSkipped ==
    /\ pc = "sort"
    /\ cpus' = <<>>
    /\ idx' = 1
    /\ pc' = "emit"
    /\ UNCHANGED <<ret, file, modTime, startOffset, deferred, handle, pos, header,
                   entries, prevEnd, tids, trace, log, panicking>>

Sort ==
    /\ pc = "sort"
    /\ entries' \in SortResults(entries)
    /\ cpus' = <<>>
    /\ idx' = 1
    /\ pc' = "emit"
    /\ UNCHANGED <<ret, file, modTime, startOffset, deferred, handle, pos, header,
                   prevEnd, tids, trace, log, panicking>>

Offset == U64Div(Uint64(startOffset), 1000)

(* FirstFit that takes a cpu only when it ended strictly before begin. *)
FirstFitStrict(cs, begin) ==
    IF \E c \in 1..Len(cs) : cs[c] < begin
    THEN (CHOOSE c \in 1..Len(cs) :
              cs[c] < begin /\ \A d \in 1..(c - 1) : ~(cs[d] < begin)) - 1
    ELSE -1

(* FirstFit that takes the last free cpu instead of the first. *)
FirstFitLast(cs, begin) ==
    IF \E c \in 1..Len(cs) : cs[c] <= begin
    THEN (CHOOSE c \in 1..Len(cs) :
              cs[c] <= begin /\ \A d \in (c + 1)..Len(cs) : ~(cs[d] <= begin)) - 1
    ELSE -1

(* FirstFit with the comparison turned round: the first cpu still busy. *)
FirstFitBusy(cs, begin) ==
    IF \E c \in 1..Len(cs) : cs[c] >= begin
    THEN (CHOOSE c \in 1..Len(cs) :
              cs[c] >= begin /\ \A d \in 1..(c - 1) : ~(cs[d] >= begin)) - 1
    ELSE -1

(* The inner loop: the first cpu whose endTime <= begin, or -1. *)
FirstFit(cs, begin) ==
    IF \E c \in 1..Len(cs) : cs[c] <= begin
    THEN (CHOOSE c \in 1..Len(cs) :
              cs[c] <= begin /\ \A d \in 1..(c - 1) : ~(cs[d] <= begin)) - 1
    ELSE -1

EventTime(entry) == U64Add(Offset, U64Mul(Uint64(entry.Begin), 1000))

EventDur(entry) == U64Mul(Uint64(entry.End - entry.Begin), 1000)

TaskEvent(entry, tid) ==
    [Name  |-> entry.Name,
     Phase |-> "X",
     Time  |-> EventTime(entry),
     Dur   |-> EventDur(entry),
     Pid   |-> 1,
     Tid   |-> Uint64(tid)]

(* Emit that leaves the recorded end of a reused cpu as it was. *)
EmitKeepsEnd ==
    /\ pc = "emit"
    /\ idx <= Len(entries)
    /\ LET entry == entries[idx]
           fit   == FirstFit(cpus, entry.Begin)
           tid   == IF fit = -1 THEN Len(cpus) ELSE fit
       IN  /\ cpus' = IF fit = -1 THEN Append(cpus, entry.End) ELSE cpus
           /\ tids' = Append(tids, tid)
           /\ trace' = writeEvent(trace, TaskEvent(entry, tid))
    /\ idx' = idx + 1
    /\ UNCHANGED <<ret, pc, file, modTime, startOffset, deferred, handle, pos,
                   header, entries, prevEnd, log, panicking>>

Emit ==
    /\ pc = "emit"
    /\ idx <= Len(entries)
    /\ LET entry == entries[idx]
           fit   == FirstFit(cpus, entry.Begin)
           tid   == IF fit = -1 THEN Len(cpus) ELSE fit
       IN  /\ cpus' = IF fit = -1 THEN Append(cpus, entry.End)
                      ELSE [cpus EXCEPT ![fit + 1] = entry.End]
           /\ tids' = Append(tids, tid)
           /\ trace' = writeEvent(trace, TaskEvent(entry, tid))
    /\ idx' = idx + 1
    /\ UNCHANGED <<ret, pc, file, modTime, startOffset, deferred, handle, pos,
                   header, entries, prevEnd, log, panicking>>

EmitEnd ==
    /\ pc = "emit"
    /\ idx > Len(entries)
    /\ pc' = "unwind"
    /\ ret' = "end"
    /\ UNCHANGED <<file, modTime, startOffset, deferred, handle, pos, header,
                   entries, prevEnd, cpus, idx, tids, trace, log, panicking>>

(* The deferred calls run last in, first out, on a return and on a panic. *)
RunDeferred ==
    /\ pc = "unwind"
    /\ deferred # <<>>
    /\ LET call == deferred[Len(deferred)]
       IN  /\ handle' = IF call = "Close" THEN "closed" ELSE handle
           /\ trace' = IF call = "End" THEN writeEvent(trace, EndEvent) ELSE trace
    /\ deferred' = SubSeq(deferred, 1, Len(deferred) - 1)
    /\ UNCHANGED <<ret, pc, file, modTime, startOffset, pos, header, entries,
                   prevEnd, cpus, idx, tids, log, panicking>>

Return ==
    /\ pc = "unwind"
    /\ deferred = <<>>
    /\ pc' = "done"
    /\ UNCHANGED <<ret, file, modTime, startOffset, deferred, handle, pos, header,
                   entries, prevEnd, cpus, idx, tids, trace, log, panicking>>

Next ==
    \/ Call
    \/ StatMissing
    \/ StatStale
    \/ StatFresh
    \/ OpenFail
    \/ OpenOk
    \/ ScanHeaderBad
    \/ ScanHeaderOk
    \/ ScanBadBegin
    \/ ScanPanic
    \/ ScanBadEnd
    \/ ScanEntry
    \/ ScanReadErr
    \/ ScanEnd
    \/ Sort
    \/ Emit
    \/ EmitEnd
    \/ RunDeferred
    \/ Return

Spec == Init /\ [][Next]_vars

-----------------------------------------------------------------------------
(* Properties *)

Min(a, b) == IF a < b THEN a ELSE b

Max(a, b) == IF a > b THEN a ELSE b

TaskEvents == SelectSeq(trace, LAMBDA ev : ev.Phase = "X")

(* The half-open intervals [Begin, End) of two entries share an instant. *)
Overlap(a, b) == Max(a.Begin, b.Begin) < Min(a.End, b.End)

(* C1: among the entries the lane scheduler has processed, in ascending    *)
(* Begin order, no two that were given the same lane have overlapping      *)
(* intervals [Begin, End).                                                 *)
NoOverlapOnLane ==
    \A i, j \in 1..Len(tids) :
        (i < j /\ tids[i] = tids[j]) => ~Overlap(entries[i], entries[j])

(* A finished import that reused a lane and also opened a second lane for  *)
(* an entry that overlaps an earlier one.                                  *)
LaneReusedAndAvoided ==
    /\ pc = "done"
    /\ \E i, j \in 1..Len(tids) : i < j /\ tids[i] = tids[j]
    /\ \E i, j \in 1..Len(tids) :
           i < j /\ tids[i] # tids[j] /\ Overlap(entries[i], entries[j])

(* C2: whatever the log file holds, ImportNinjaLog returns normally to its *)
(* caller: it never ends with a panic propagating.                         *)
ReturnsNormally == pc = "done" => ~panicking

(* The entry a well-formed data line stands for. *)
LineEntry(line) ==
    LET fields == Split(line, Tab)
    IN  [Name  |-> fields[4],
         Begin |-> Atoi(fields[1]).val,
         End   |-> Atoi(fields[2]).val]

RECURSIVE MaxEnd(_)
MaxEnd(es) ==
    IF Len(es) = 1 THEN es[1].End
    ELSE Max(es[1].End, MaxEnd(Tail(es)))

(* The entries accumulated after the first k data lines, when every line   *)
(* whose end is below the maximum end accumulated so far discards what was *)
(* accumulated before it.                                                  *)
RECURSIVE Accumulated(_)
Accumulated(k) ==
    IF k = 0 THEN <<>>
    ELSE LET before == Accumulated(k - 1)
             e      == LineEntry(file[k + 1])
         IN  IF before # <<>> /\ e.End < MaxEnd(before) THEN <<e>>
             ELSE Append(before, e)

(* Some data line among the first k is a regression line. *)
HasRegression(k) == Len(Accumulated(k)) < k

SameEntries(es, fs) ==
    /\ Len(es) = Len(fs)
    /\ \E p \in Perms(Len(es)) : \A i \in 1..Len(es) : es[i] = fs[p[i]]

(* C3: while the data lines are read, the entries kept are those from the  *)
(* last regression line (a line whose end is below the maximum end of the  *)
(* entries accumulated so far) to the line just read; and when the log has *)
(* parsed completely the task events emitted are exactly those of the      *)
(* lines from the last regression line to the end of the file.             *)
KeepsTailAfterRestart ==
    /\ (pc = "scan" /\ ~header) => entries = Accumulated(pos - 1)
    /\ (pc = "done" /\ ret = "end" /\ file # <<>>) =>
           /\ SameEntries(entries, Accumulated(Len(file) - 1))
           /\ Len(TaskEvents) = Len(entries)
           /\ \A i \in 1..Len(entries) :
                  TaskEvents[i] = TaskEvent(entries[i], tids[i])

(* A finished import whose log had a regression line after the first data  *)
(* line and entries after it.                                              *)
RestartedAndEmitted ==
    /\ pc = "done"
    /\ ret = "end"
    /\ Len(file) >= 3
    /\ HasRegression(Len(file) - 1)
    /\ Len(TaskEvents) >= 2

(* A data line whose begin field, or whose end field, is not an integer. *)
BadNumber(line) ==
    LET fields == Split(line, Tab)
    IN  \/ ~Atoi(fields[1]).ok
        \/ Len(fields) >= 2 /\ ~Atoi(fields[2]).ok

EntryDiagnostic(line) ==
    [level |-> "normal", msg |-> "Unable to parse ninja entry %q: %v", arg |-> line]

(* The import got to read the file: stat, open and every read succeeded. *)
FileWasRead == ret \notin {"missing", "stale", "open", "read"}

(* C4: parsing is all or nothing: when any data line of a log that was     *)
(* read has a begin or end field that is not an integer, the import emits  *)
(* no task event and logs a diagnostic naming such a line.                 *)
AllOrNothing ==
    (/\ pc = "done"
     /\ FileWasRead
     /\ file # <<>>
     /\ file[1] = ExpectedHeader
     /\ \E i \in 2..Len(file) : BadNumber(file[i]))
    => /\ TaskEvents = <<>>
       /\ \E i \in 2..Len(file) :
              BadNumber(file[i]) /\ log = <<EntryDiagnostic(file[i])>>

HeaderDiagnostic(hdr) ==
    [level |-> "normal", msg |-> "Unknown ninja log header: %q", arg |-> hdr]

(* C5: when the first line of the log is present and is not the expected   *)
(* header, the import emits no task event, whatever lines follow, and logs *)
(* a diagnostic: the one naming the header when the file was read.         *)
BadHeaderEmitsNothing ==
    (pc = "done" /\ file # <<>> /\ file[1] # ExpectedHeader)
    => /\ TaskEvents = <<>>
       /\ log # <<>>
       /\ FileWasRead => log = <<HeaderDiagnostic(file[1])>>

(* A finished import that met a wrong header followed by a data line. *)
BadHeaderSeen ==
    /\ pc = "done"
    /\ ret = "header"
    /\ Len(file) >= 2
    /\ ~BadNumber(file[2])

StaleIffStrictlyBefore ==
    (pc \notin {"idle", "stat"} /\ ret # "missing")
    => /\ (ret = "stale") = (modTime < startOffset)
       /\ ret = "stale" =>
              (handle = "none" /\ pos = 0 /\ TaskEvents = <<>> /\ pc # "open")
       /\ (ret # "stale" /\ pc = "done") => (ret = "open" \/ handle = "closed")

(* A finished import of a log written at the very origin time, with task   *)
(* events emitted.                                                         *)
FreshAtOrigin == pc = "done" /\ modTime = startOffset /\ TaskEvents # <<>>

(* A finished import that left a log with entries unread as stale. *)
StaleSkipped == pc = "done" /\ ret = "stale" /\ Len(file) >= 2

(* The uint64 u holds the integer m itself, not m modulo 2^64. *)
Holds(u, m) == u = <<0, m>>

(* C8: every task event has the duration (End - Begin) * 1000 of its       *)
(* entry, and that duration is non-negative when End >= Begin.             *)
DurationIsDifference ==
    \A i \in 1..Len(tids) :
        /\ Holds(TaskEvents[i].Dur, (entries[i].End - entries[i].Begin) * 1000)
        /\ entries[i].End >= entries[i].Begin => TaskEvents[i].Dur[2] >= 0

OriginMicros == startOffset \div 1000

(* C9: every task event carries its entry's name, phase complete, the      *)
(* start time origin (in microseconds) + Begin * 1000, process id 1 and,   *)
(* as thread id, the lane the scheduler gave the entry.                    *)
EventCarriesEntry ==
    \A i \in 1..Len(tids) :
        /\ TaskEvents[i].Name = entries[i].Name
        /\ TaskEvents[i].Phase = "X"
        /\ Holds(TaskEvents[i].Time, OriginMicros + entries[i].Begin * 1000)
        /\ TaskEvents[i].Pid = 1
        /\ Holds(TaskEvents[i].Tid, tids[i])

Count(phase) == Len(SelectSeq(trace, LAMBDA ev : ev.Phase = phase))

(* C10: on every way out of ImportNinjaLog the trace holds exactly one     *)
(* begin marker and one end marker of the import, the begin marker first   *)
(* and the end marker last, and while the import runs the begin marker is  *)
(* there and nothing follows an end marker.                                *)
MarkersFrameImport ==
    /\ pc # "idle" => (Count("B") = 1 /\ trace[1].Phase = "B")
    /\ \A i \in 1..Len(trace) :
           trace[i].Phase = "E" => (i = Len(trace) /\ pc \in {"unwind", "done"})
    /\ pc = "done" => (Count("E") = 1 /\ trace[Len(trace)].Phase = "E")

(* A finished import with task events between its markers. *)
FramedTaskEvents ==
    /\ pc = "done"
    /\ ret = "end"
    /\ Len(trace) >= 4
    /\ Count("X") = Len(trace) - 2

(* The entries kept when the whole file has been read. *)
Retained == Accumulated(Len(file) - 1)

(* C11: for a log that parsed completely the task events are the retained  *)
(* entries in ascending Begin order: one complete event for each retained  *)
(* entry, none dropped and none twice, Begin never decreasing along the    *)
(* events.                                                                 *)
EventsAreRetainedByBegin ==
    (pc = "done" /\ ret = "end" /\ file # <<>>)
    => /\ Len(TaskEvents) = Len(Retained)
       /\ \E p \in Perms(Len(Retained)) :
              /\ \A i \in 1..Len(Retained) :
                     /\ TaskEvents[i].Name = Retained[p[i]].Name
                     /\ TaskEvents[i].Phase = "X"
                     /\ TaskEvents[i].Time = EventTime(Retained[p[i]])
                     /\ TaskEvents[i].Dur = EventDur(Retained[p[i]])
              /\ \A i \in 1..(Len(Retained) - 1) :
                     Retained[p[i]].Begin <= Retained[p[i + 1]].Begin

(* A finished import whose retained entries were not in Begin order in the *)
(* file.                                                                   *)
ReorderedByBegin ==
    /\ pc = "done"
    /\ ret = "end"
    /\ Len(TaskEvents) >= 3
    /\ \E i \in 1..(Len(Retained) - 1) : Retained[i].Begin > Retained[i + 1].Begin

(* The lanes that exist when entry i is about to be processed, and the End *)
(* of the entry last given to lane l before entry i.                       *)
LanesBefore(i) == {tids[j] : j \in 1..(i - 1)}

LastOnLane(i, l) ==
    CHOOSE j \in 1..(i - 1) :
        tids[j] = l /\ \A k \in (j + 1)..(i - 1) : tids[k] # l

LaneEndBefore(i, l) == entries[LastOnLane(i, l)].End

FreeLanes(i) == {l \in LanesBefore(i) : LaneEndBefore(i, l) <= entries[i].Begin}

(* C13: every entry gets the lowest-numbered existing lane whose recorded  *)
(* end is <= the entry's Begin, or, when no lane qualifies, a new lane     *)
(* whose id is the number of lanes existing then; the log (0,10,a),        *)
(* (5,15,b), (20,25,c) gets the lanes 0, 1, 0.                             *)
LowestFreeLane ==
    /\ \A i \in 1..Len(tids) :
           IF FreeLanes(i) = {}
           THEN tids[i] = Cardinality(LanesBefore(i))
           ELSE tids[i] \in FreeLanes(i) /\ \A l \in FreeLanes(i) : tids[i] <= l
    /\ (pc = "done" /\ ret = "end" /\ file = <<ExpectedHeader>> \o ScenarioData)
           => tids = <<0, 1, 0>>

(* The scenario log imported to the end. *)
ScenarioImported ==
    /\ pc = "done"
    /\ ret = "end"
    /\ file = <<ExpectedHeader>> \o ScenarioData
    /\ Len(TaskEvents) = 3

(* C14: after any prefix of the sorted entries has been processed the lane *)
(* ids in use are exactly 0..n-1 for the lane count n, so every lane has   *)
(* an entry, and the recorded end of each lane is the End of the entry     *)
(* last given to it; hence giving an entry a lane changes the recorded end *)
(* of no other lane.                                                       *)
LanesHoldLastEnd ==
    pc \in {"emit", "unwind", "done"}
    => /\ idx = Len(tids) + 1
       /\ {tids[i] : i \in 1..Len(tids)} = 0..(Len(cpus) - 1)
       /\ \A l \in 0..(Len(cpus) - 1) : cpus[l + 1] = LaneEndBefore(idx, l)

(* The scheduler after three entries on two lanes, the first lane reused   *)
(* and its recorded end changed by that.                                   *)
TwoLanesOneReused ==
    /\ pc = "emit"
    /\ Len(cpus) = 2
    /\ tids = <<0, 1, 0>>
    /\ cpus[1] # entries[1].End

(* C15: while the data lines are read, prevEnd, which the end of the next  *)
(* line is compared with, is the maximum End of the entries kept whenever  *)
(* any is kept; the entries kept have non-decreasing End in file order.    *)
PrevEndIsMaxKept ==
    (pc = "scan" /\ entries # <<>>)
    => /\ prevEnd = MaxEnd(entries)
       /\ prevEnd = entries[Len(entries)].End
       /\ \A i, j \in 1..Len(entries) : i < j => entries[i].End <= entries[j].End

(* The reader with two entries kept after a restart dropped an earlier one. *)
KeptAfterRestart ==
    /\ pc = "scan"
    /\ pos = 4
    /\ Len(entries) = 2
    /\ entries[1].End < entries[2].End

(* C16: on every way out that follows a successful open (bad header,       *)
(* unparsable line, read error, the end of the function, a panic) the file *)
(* handle has been closed when ImportNinjaLog is left; on the ways out     *)
(* before the open (missing file, stale file, open failure) no handle was  *)
(* ever acquired; and the handle is open only while the body runs.         *)
HandleReleased ==
    /\ pc = "done" =>
           /\ ret \in {"missing", "stale", "open"} => handle = "none"
           /\ ret \in {"header", "entry", "read", "end", "panic"} => handle = "closed"
    /\ ret \in {"missing", "stale", "open"} => handle = "none"
    /\ handle = "open" => pc \in {"scan", "sort", "emit", "unwind"}

(* An import left through the parse-error exit after the file was opened. *)
ClosedAfterParseError ==
    /\ pc = "done"
    /\ ret = "entry"
    /\ handle = "closed"
    /\ pos >= 2

(* The lane scan replaced by a min-heap keyed on the lanes' recorded ends:  *)
(* take a lane with the smallest recorded end (the lowest id among equals), *)
(* reuse it when that end is <= the entry's Begin, else open a new lane.   *)
MinLane(cs) ==
    CHOOSE c \in 1..Len(cs) :
        /\ \A d \in 1..Len(cs) : cs[c] <= cs[d]
        /\ \A d \in 1..(c - 1) : cs[d] # cs[c]

HeapFit(cs, begin) ==
    IF cs # <<>> /\ cs[MinLane(cs)] <= begin THEN MinLane(cs) - 1 ELSE -1

(* The heap scheduler's cpus and tids after the first k of the entries es. *)
RECURSIVE HeapRun(_, _)
HeapRun(es, k) ==
    IF k = 0 THEN [cpus |-> <<>>, tids |-> <<>>]
    ELSE LET before == HeapRun(es, k - 1)
             fit    == HeapFit(before.cpus, es[k].Begin)
         IN  IF fit = -1
             THEN [cpus |-> Append(before.cpus, es[k].End),
                   tids |-> Append(before.tids, Len(before.cpus))]
             ELSE [cpus |-> [before.cpus EXCEPT ![fit + 1] = es[k].End],
                   tids |-> Append(before.tids, fit)]

HeapTids == HeapRun(entries, Len(tids)).tids

(* C17, as stated: the min-heap scheduler gives every entry the lane id    *)
(* that the first-fit scan gives it.                                       *)
HeapSameLanes == tids = HeapTids

IsNewLane(ts, i) == \A j \in 1..(i - 1) : ts[j] # ts[i]

(* C17, amended: the min-heap scheduler opens a new lane at exactly the    *)
(* entries where the first-fit scan does, so it uses the same number of    *)
(* lanes, and it puts no two overlapping entries on one lane; the events   *)
(* are the same but for the lane id of an entry that reuses a lane, which  *)
(* may differ.                                                             *)
HeapSameLaneCount ==
    /\ Len(HeapTids) = Len(tids)
    /\ \A i \in 1..Len(tids) : IsNewLane(HeapTids, i) = IsNewLane(tids, i)
    /\ Len(HeapRun(entries, Len(tids)).cpus) = Len(cpus)
    /\ \A i, j \in 1..Len(tids) :
           (i < j /\ HeapTids[i] = HeapTids[j]) => ~Overlap(entries[i], entries[j])

(* A finished import in which the heap would have reused another lane than *)
(* the first-fit scan did.                                                 *)
HeapPicksOtherLane ==
    /\ pc = "done"
    /\ ret = "end"
    /\ Len(cpus) = 2
    /\ tids # HeapTids

(* C18, as stated: along the task events of one import the lane ids never  *)
(* decrease.                                                               *)
EmittedInLaneOrder ==
    \A i, j \in 1..Len(TaskEvents) :
        i < j => TaskEvents[i].Tid[2] <= TaskEvents[j].Tid[2]

(* C18, amended: the task events are emitted in the order the scheduler    *)
(* processed the entries, ascending Begin, each carrying the lane given to *)
(* its entry; the lane ids are not ordered, only bounded: an event's lane  *)
(* id is at most the number of lanes opened before it.                     *)
EmittedInBeginOrder ==
    /\ Len(TaskEvents) = Len(tids)
    /\ \A i \in 1..Len(tids) :
           /\ TaskEvents[i].Tid = <<0, tids[i]>>
           /\ TaskEvents[i].Name = entries[i].Name
           /\ tids[i] <= Cardinality(LanesBefore(i))
    /\ \A i, j \in 1..Len(tids) : i < j => entries[i].Begin <= entries[j].Begin

(* A finished import whose lane ids went down along the events. *)
LaneIdsGoDown ==
    /\ pc = "done"
    /\ ret = "end"
    /\ \E i \in 1..(Len(TaskEvents) - 1) :
           TaskEvents[i].Tid[2] > TaskEvents[i + 1].Tid[2]

(* The entries whose interval [Begin, End) holds the instant t, and the    *)
(* largest number of entries that share an instant (an instant shared by   *)
(* some entries is shared by the same ones at the latest of their Begins). *)
Covering(es, t) == {j \in 1..Len(es) : es[j].Begin <= t /\ t < es[j].End}

MaxDepth(es) ==
    LET depths == {Cardinality(Covering(es, es[i].Begin)) : i \in 1..Len(es)}
    IN  IF depths = {} THEN 0
        ELSE CHOOSE d \in depths : \A e \in depths : e <= d

(* C19: when all the retained entries have End > Begin, the number of      *)
(* lanes the scheduler has allocated for them is the largest number of     *)
(* entries whose intervals [Begin, End) share an instant.                  *)
LanesAreMaxDepth ==
    (/\ pc = "done"
     /\ ret = "end"
     /\ \A i \in 1..Len(entries) : entries[i].End > entries[i].Begin)
    => Len(cpus) = MaxDepth(entries)

(* A finished import of three entries of positive length on two lanes. *)
ThreeEntriesTwoLanes ==
    /\ pc = "done"
    /\ ret = "end"
    /\ Len(entries) = 3
    /\ \A i \in 1..Len(entries) : entries[i].End > entries[i].Begin
    /\ Len(cpus) = 2
    /\ MaxDepth(entries) = 2

====
